---- MODULE Spec2Model ----
(***************************************************************************)
(* Model of the rating batch dispatcher of revcon-middleware:              *)
(*   routes.SubmitRatingHandler      (src/app/routes/rate.go)              *)
(*   handlers.GetOAuthToken          (src/app/handlers/externalauth.go)    *)
(*   handlers.NewRequestProcessor, ProcessSingleRequest,                   *)
(*   PostRequestWithContext, RequestProcessor.ProcessRequestsInParallel    *)
(*                                   (src/app/handlers/rate.go)            *)
(* One HTTP request is followed from its arrival to the response.  The     *)
(* dispatcher goroutine and the worker goroutines are interleaved at the   *)
(* channel and WaitGroup operations.                                       *)
(***************************************************************************)
EXTENDS Integers, Sequences, FiniteSets, Bags, TLC

(* ------------------------------ bounds -------------------------------- *)
MaxBatch == 2        \* longest batch that is submitted
MaxStopId == 2       \* StopIds are drawn from 1..MaxStopId (equal StopIds allowed)

(* -------------------------- program constants -------------------------- *)
MaxWorkers == 5                    \* var MaxWorkers = 5
StatusOK == 200                    \* http.StatusOK
StatusBadRequest == 400            \* http.StatusBadRequest
StatusInternalServerError == 500   \* http.StatusInternalServerError

VARIABLES
    body,          \* the incoming HTTP request body: malformed, or a JSON array of requests
    hpc,           \* position of SubmitRatingHandler / ProcessRequestsInParallel
    requests,      \* []PayloadRequest returned by ParseRequests
    tokenReply,    \* what the token provider answered ("none" before the call)
    processor,     \* the *RequestProcessor, or "nil"
    requestQueue,  \* chan PayloadRequest: the buffered items (positions in requests)
    queueCap,      \* capacity of requestQueue and of responseChan: len(requests)
    queueClosed,   \* close(requestQueue) has run
    responseChan,  \* chan ResponseWithStopID: the buffered outcomes
    respClosed,    \* close(responseChan) has run
    started,       \* loop variable i of the worker-start loop
    wg,            \* sync.WaitGroup counter
    pool,          \* the worker goroutines: a bag of [pc, req] (the closure
                   \* captures no index, so goroutines in the same state are alike)
    responses,     \* the slice ProcessRequestsInParallel returns
    retErr,        \* the error ProcessRequestsInParallel returns
    httpStatus,    \* status written to the http.ResponseWriter (0 = nothing written)
    httpBody,      \* body written to the http.ResponseWriter
    crashed,       \* the process was terminated by an unrecovered panic
    dequeued,      \* history: how often each item was received from requestQueue
    calls,         \* history: how many downstream requests were sent per item
    results,       \* history: the downstream result each item's call ended with
    wgAdds,        \* history: number of wg.Add(1) calls
    published,     \* history: the items in the order their outcomes were published
    sink,          \* the event sink: log.globalLogger and its output
    firstRun       \* history: what an earlier run of the dispatcher on this batch returned

vars == <<body, hpc, requests, tokenReply, processor, requestQueue, queueCap,
          queueClosed, responseChan, respClosed, started, wg, pool,
          responses, retErr, httpStatus, httpBody, crashed, dequeued, calls,
          results, wgAdds, published, sink, firstRun>>

(* ------------------------------ values -------------------------------- *)
Nil == <<>>          \* a nil error, an empty string and a nil/empty slice

StopIds == 1..MaxStopId

\* PayloadRequest: only the StopId is kept, the freight details are passed
\* through to the downstream service unchanged
PayloadRequest == [StopId : StopIds]

RECURSIVE SeqsUpTo(_, _)
SeqsUpTo(S, n) ==
    IF n = 0 THEN {<<>>}
    ELSE LET shorter == SeqsUpTo(S, n - 1)
         IN  shorter \cup {Append(q, x) : q \in {t \in shorter : Len(t) = n - 1}, x \in S}

\* The program copies StopIds and never orders or computes with them, so the
\* batches are taken up to a renaming of the StopIds: the first item has
\* StopId 1 and an item has either the StopId of an earlier item or the next
\* unused one.  Batches with equal StopIds are included.
FirstUse(b) ==
    \A k \in DOMAIN b :
        \/ b[k].StopId = 1
        \/ \E j \in 1..(k - 1) : b[j].StopId >= b[k].StopId - 1

Batches == {b \in SeqsUpTo(PayloadRequest, MaxBatch) : FirstUse(b)}

\* bodies a client can post: a JSON array of requests, or something that
\* json.Unmarshal rejects
Bodies == {[valid |-> FALSE, requests |-> <<>>]}
          \cup {[valid |-> TRUE, requests |-> b] : b \in Batches}

\* what the token provider can answer to http.PostForm
TokenReplies ==
    { [kind |-> "transport", status |-> 0,   body |-> "none"],
      [kind |-> "http",      status |-> 401, body |-> "denied"],
      [kind |-> "http",      status |-> 200, body |-> "garbage"],
      [kind |-> "http",      status |-> 200, body |-> "notoken"],
      [kind |-> "http",      status |-> 200, body |-> "token"] }

NoReply == [kind |-> "none", status |-> 0, body |-> "none"]
Panic == [kind |-> "panic", status |-> 0, body |-> "none"]

\* what client.Do can end with for one item: an error (transport failure or
\* the 69 s context deadline) or an HTTP response with a status and a body
DownstreamResults ==
    { [kind |-> "transport", status |-> 0,   body |-> "none"],
      [kind |-> "deadline",  status |-> 0,   body |-> "none"],
      [kind |-> "http",      status |-> 500, body |-> "boom"],
      [kind |-> "http",      status |-> 201, body |-> "[offerA]"],
      [kind |-> "http",      status |-> 200, body |-> "garbage"],
      [kind |-> "http",      status |-> 200, body |-> "[]"],
      [kind |-> "http",      status |-> 200, body |-> "null"],
      [kind |-> "http",      status |-> 200, body |-> "[offerA]"] }

(* --------------------------- pure functions ---------------------------- *)
\* Unmarshal that decodes into a copy: the caller's slice stays nil
Unmarshal_Discard(b) ==
    CASE b \in {"[offerA]", "[]", "null"} -> [value |-> Nil, err |-> Nil]
      [] OTHER -> [value |-> Nil,
                   err |-> <<"invalid character looking for beginning of value">>]

\* json.Unmarshal([]byte(response), &apiResponse) for the bodies above
Unmarshal(b) ==
    CASE b = "[offerA]" -> [value |-> <<"offerA">>, err |-> Nil]
      [] b = "[]"       -> [value |-> Nil, err |-> Nil]
      [] b = "null"     -> [value |-> Nil, err |-> Nil]
      [] OTHER          -> [value |-> Nil,
                            err |-> <<"invalid character looking for beginning of value">>]

\* GetOAuthToken: the (token, error) pair for one provider reply
GetOAuthToken(reply) ==
    IF reply.kind = "transport"
    THEN [token |-> "", err |-> <<"Post: ", "connection refused">>]
    ELSE IF reply.status # StatusOK
    THEN [token |-> "", err |-> Nil]           \* returns the nil err of PostForm
    ELSE IF reply.body = "garbage"
    THEN [token |-> "", err |-> <<"invalid character looking for beginning of value">>]
    ELSE IF reply.body # "token"
    THEN [token |-> "", err |-> Nil]           \* returns the nil err of PostForm
    ELSE [token |-> "tok", err |-> Nil]

\* PostRequestWithContext whose non-200 error drops the response body
PostRequestWithContext_DropBody(r) ==
    IF r.kind = "transport"
    THEN [response |-> "", err |-> <<"Post: ", "connection refused">>]
    ELSE IF r.kind = "deadline"
    THEN [response |-> "", err |-> <<"Post: ", "context deadline exceeded">>]
    ELSE IF r.status # StatusOK
    THEN [response |-> "",
          err |-> <<"non-200 HTTP status code received: ", ToString(r.status)>>]
    ELSE [response |-> r.body, err |-> Nil]

\* PostRequestWithContext: the (string, error) pair for one downstream result
PostRequestWithContext(r) ==
    IF r.kind = "transport"
    THEN [response |-> "", err |-> <<"Post: ", "connection refused">>]
    ELSE IF r.kind = "deadline"
    THEN [response |-> "", err |-> <<"Post: ", "context deadline exceeded">>]
    ELSE IF r.status # StatusOK
    THEN [response |-> "",
          err |-> <<"non-200 HTTP status code received: ", ToString(r.status),
                    ", body: ", r.body>>]
    ELSE [response |-> r.body, err |-> Nil]

\* ProcessSingleRequest whose decode-failure branch forgets the Error field
ProcessSingleRequest_DropDecodeErr(req, r) ==
    LET post == PostRequestWithContext(r)
        dec  == Unmarshal(post.response)
    IN  IF post.err # Nil
        THEN [resp |-> [StopID |-> req.StopId, Response |-> Nil,
                        Error |-> <<"Error Posting with Context: ">> \o post.err],
              err |-> Nil]
        ELSE [resp |-> [StopID |-> req.StopId, Response |-> dec.value, Error |-> Nil],
              err |-> Nil]

\* ProcessSingleRequest that leaves StopID at its zero value in the error branches
ProcessSingleRequest_NoStopID(req, r) ==
    LET post == PostRequestWithContext(r)
        dec  == Unmarshal(post.response)
    IN  IF post.err # Nil
        THEN [resp |-> [StopID |-> 0, Response |-> Nil,
                        Error |-> <<"Error Posting with Context: ">> \o post.err],
              err |-> Nil]
        ELSE IF dec.err # Nil
        THEN [resp |-> [StopID |-> 0, Response |-> Nil, Error |-> dec.err],
              err |-> Nil]
        ELSE [resp |-> [StopID |-> req.StopId, Response |-> dec.value, Error |-> Nil],
              err |-> Nil]

\* ProcessSingleRequest: the (ResponseWithStopID, error) pair
ProcessSingleRequest(req, r) ==
    LET post == PostRequestWithContext(r)
        dec  == Unmarshal(post.response)
    IN  IF post.err # Nil
        THEN [resp |-> [StopID |-> req.StopId, Response |-> Nil,
                        Error |-> <<"Error Posting with Context: ">> \o post.err],
              err |-> Nil]
        ELSE IF dec.err # Nil
        THEN [resp |-> [StopID |-> req.StopId, Response |-> Nil, Error |-> dec.err],
              err |-> Nil]
        ELSE [resp |-> [StopID |-> req.StopId, Response |-> dec.value, Error |-> Nil],
              err |-> Nil]

\* body of the worker loop: the outcome the worker sends to responseChan
WorkerOutcome(req, r) ==
    LET p == ProcessSingleRequest(req, r)
    IN  IF p.err # Nil
        THEN [StopID |-> req.StopId, Response |-> Nil, Error |-> p.err]
        ELSE p.resp


(* ------------------------------ actions -------------------------------- *)
NoProcessor == [AccessToken |-> "", Headers |-> Nil, Workers |-> 0, set |-> FALSE]

\* The event sink behind log.Info/log.Error (log/main.go:252-317):
\*   "ok"         globalLogger is set and output.Write returns nil
\*   "writeError" globalLogger is set and output.Write returns an error
\*                (MongoDBLogOutput.Write: InsertOne fails), which Logger.log drops
\*   "nil"        InitializeMongoDBLogger returned at its error branch (or was
\*                never called): globalLogger is nil and log.Info dereferences it
Sinks == {"ok", "writeError", "nil"}

\* no earlier run of the dispatcher
NoRun == [done |-> FALSE, outcomes |-> EmptyBag, results |-> <<>>]

Init ==
    /\ body \in Bodies
    /\ hpc = "parse"
    /\ requests = <<>>
    /\ tokenReply = NoReply
    /\ processor = NoProcessor
    /\ requestQueue = <<>>
    /\ queueCap = 0
    /\ queueClosed = FALSE
    /\ responseChan = <<>>
    /\ respClosed = FALSE
    /\ started = 0
    /\ wg = 0
    /\ pool = EmptyBag
    /\ responses = <<>>
    /\ retErr = Nil
    /\ httpStatus = 0
    /\ httpBody = Nil
    /\ crashed = FALSE
    /\ dequeued = <<>>
    /\ calls = <<>>
    /\ results = <<>>
    /\ wgAdds = 0
    /\ published = <<>>
    /\ sink = "ok"
    /\ firstRun = NoRun

\* The state after construction when the logger may have failed to initialise
\* or its output may fail
SinkInit ==
    /\ body \in Bodies
    /\ hpc = "parse"
    /\ requests = <<>>
    /\ tokenReply = NoReply
    /\ processor = NoProcessor
    /\ requestQueue = <<>>
    /\ queueCap = 0
    /\ queueClosed = FALSE
    /\ responseChan = <<>>
    /\ respClosed = FALSE
    /\ started = 0
    /\ wg = 0
    /\ pool = EmptyBag
    /\ responses = <<>>
    /\ retErr = Nil
    /\ httpStatus = 0
    /\ httpBody = Nil
    /\ crashed = FALSE
    /\ dequeued = <<>>
    /\ calls = <<>>
    /\ results = <<>>
    /\ wgAdds = 0
    /\ published = <<>>
    /\ sink \in Sinks
    /\ firstRun = NoRun

\* RespondWithError
RespondWithError(statusCode, message) ==
    /\ httpStatus' = statusCode
    /\ httpBody' = message
    /\ hpc' = "responded"

\* ParseRequests whose error branch lacks the return: the handler writes the
\* 400 and goes on with the nil slice
ParseRequests_NoReturn ==
    /\ ~crashed /\ hpc = "parse"
    /\ IF ~body.valid
       THEN /\ httpStatus' = StatusBadRequest
            /\ httpBody' = <<"Error Parsing Requests: ", "unexpected end of JSON input">>
       ELSE UNCHANGED <<httpStatus, httpBody>>
    /\ requests' = body.requests
    /\ dequeued' = [i \in 1..Len(body.requests) |-> 0]
    /\ calls' = [i \in 1..Len(body.requests) |-> 0]
    /\ results' = [i \in 1..Len(body.requests) |-> NoReply]
    /\ hpc' = "token"
    /\ UNCHANGED <<body, sink, firstRun, tokenReply, processor, requestQueue, queueCap, queueClosed,
                   responseChan, respClosed, started, wg, pool,
                   responses, retErr, crashed, wgAdds, published>>

\* SubmitRatingHandler, rate.go:15-20: ParseRequests and its error branch
ParseRequests ==
    /\ ~crashed /\ hpc = "parse"
    /\ IF ~body.valid
       THEN /\ RespondWithError(StatusBadRequest, <<"Error Parsing Requests: ", "unexpected end of JSON input">>)
            /\ UNCHANGED <<requests, dequeued, calls, results>>
       ELSE /\ requests' = body.requests
            /\ dequeued' = [i \in 1..Len(body.requests) |-> 0]
            /\ calls' = [i \in 1..Len(body.requests) |-> 0]
            /\ results' = [i \in 1..Len(body.requests) |-> NoReply]
            /\ hpc' = "token"
            /\ UNCHANGED <<httpStatus, httpBody>>
    /\ UNCHANGED <<body, sink, firstRun, tokenReply, processor, requestQueue, queueCap, queueClosed,
                   responseChan, respClosed, started, wg, pool,
                   responses, retErr, crashed, wgAdds, published>>

\* SubmitRatingHandler, rate.go:22-28: NewRequestProcessor and its error branch
NewRequestProcessor(reply) ==
    /\ ~crashed /\ hpc = "token"
    /\ tokenReply' = reply
    /\ IF sink = "nil"
       THEN /\ hpc' = "panicked"
            /\ UNCHANGED <<processor, httpStatus, httpBody>>
       ELSE LET t == GetOAuthToken(reply)
            IN  IF t.err # Nil
                THEN /\ RespondWithError(StatusBadRequest,
                                         <<"Error Handling Requests: ">> \o t.err)
                     /\ UNCHANGED processor
                ELSE /\ processor' = [AccessToken |-> t.token,
                                      Headers |-> <<"Bearer ", t.token>>,
                                      Workers |-> MaxWorkers, set |-> TRUE]
                     /\ hpc' = "load"
                     /\ UNCHANGED <<httpStatus, httpBody>>
    /\ UNCHANGED <<body, sink, firstRun, requests, requestQueue, queueCap, queueClosed,
                   responseChan, respClosed, started, wg, pool,
                   responses, retErr, crashed, dequeued, calls, results, wgAdds, published>>

\* The worker counts a RequestProcessor is configured with: MaxWorkers is an
\* exported package variable and Workers an exported field (rate.go:18-27)
WorkerCounts == {0, 1, 2, MaxWorkers}

\* NewRequestProcessor after MaxWorkers has been set to W
ConfiguredProcessor(reply, W) ==
    /\ ~crashed /\ hpc = "token"
    /\ tokenReply' = reply
    /\ IF sink = "nil"
       THEN /\ hpc' = "panicked"
            /\ UNCHANGED <<processor, httpStatus, httpBody>>
       ELSE LET t == GetOAuthToken(reply)
            IN  IF t.err # Nil
                THEN /\ RespondWithError(StatusBadRequest,
                                         <<"Error Handling Requests: ">> \o t.err)
                     /\ UNCHANGED processor
                ELSE /\ processor' = [AccessToken |-> t.token,
                                      Headers |-> <<"Bearer ", t.token>>,
                                      Workers |-> W, set |-> TRUE]
                     /\ hpc' = "load"
                     /\ UNCHANGED <<httpStatus, httpBody>>
    /\ UNCHANGED <<body, sink, firstRun, requests, requestQueue, queueCap, queueClosed,
                   responseChan, respClosed, started, wg, pool,
                   responses, retErr, crashed, dequeued, calls, results, wgAdds, published>>

\* LoadQueue that sends the requests to the queue from the last to the first
LoadQueue_Reversed ==
    /\ ~crashed /\ hpc = "load"
    /\ queueCap' = Len(requests)
    /\ requestQueue' = [i \in 1..Len(requests) |-> Len(requests) + 1 - i]
    /\ queueClosed' = TRUE
    /\ hpc' = "start"
    /\ UNCHANGED <<body, sink, firstRun, requests, tokenReply, processor, responseChan, respClosed,
                   started, wg, pool, responses, retErr, httpStatus,
                   httpBody, crashed, dequeued, calls, results, wgAdds, published>>

\* LoadQueue without the close(requestQueue) of rate.go:242
LoadQueue_NoClose ==
    /\ ~crashed /\ hpc = "load"
    /\ queueCap' = Len(requests)
    /\ requestQueue' = [i \in 1..Len(requests) |-> i]
    /\ queueClosed' = FALSE
    /\ hpc' = "start"
    /\ UNCHANGED <<body, sink, firstRun, requests, tokenReply, processor, responseChan, respClosed,
                   started, wg, pool, responses, retErr, httpStatus,
                   httpBody, crashed, dequeued, calls, results, wgAdds, published>>

\* LoadQueue whose channels are made one slot short of len(requests); the
\* items are taken as enqueued, as after a loader that does not block
LoadQueue_ShortBuffers ==
    /\ ~crashed /\ hpc = "load"
    /\ queueCap' = IF Len(requests) > 0 THEN Len(requests) - 1 ELSE 0
    /\ requestQueue' = [i \in 1..Len(requests) |-> i]
    /\ queueClosed' = TRUE
    /\ hpc' = "start"
    /\ UNCHANGED <<body, sink, firstRun, requests, tokenReply, processor, responseChan, respClosed,
                   started, wg, pool, responses, retErr, httpStatus,
                   httpBody, crashed, dequeued, calls, results, wgAdds, published>>

\* ProcessRequestsInParallel, rate.go:235-242: both channels are made with
\* capacity len(requests), every request is sent to requestQueue, which is
\* then closed
LoadQueue ==
    /\ ~crashed /\ hpc = "load"
    /\ queueCap' = Len(requests)
    /\ requestQueue' = [i \in 1..Len(requests) |-> i]
    /\ queueClosed' = TRUE
    /\ hpc' = "start"
    /\ UNCHANGED <<body, sink, firstRun, requests, tokenReply, processor, responseChan, respClosed,
                   started, wg, pool, responses, retErr, httpStatus,
                   httpBody, crashed, dequeued, calls, results, wgAdds, published>>

\* a worker goroutine: pc is its position, req the item it holds (position in
\* requests, 0 = none)
Worker(pc, req) == [pc |-> pc, req |-> req]

\* the pool after one goroutine in state from has moved to state to
Move(from, to) == (pool (-) SetToBag({from})) (+) SetToBag({to})

\* StartWorker whose loop tests its bound after the body: one worker is
\* started whatever Workers is
StartWorker_AtLeastOnce ==
    /\ ~crashed /\ hpc = "start"
    /\ started < processor.Workers \/ started = 0
    /\ wg' = wg + 1
    /\ wgAdds' = wgAdds + 1
    /\ started' = started + 1
    /\ pool' = pool (+) SetToBag({Worker("recv", 0)})
    /\ UNCHANGED <<body, sink, firstRun, hpc, requests, tokenReply, processor, requestQueue, queueCap,
                   queueClosed, responseChan, respClosed, responses, retErr,
                   httpStatus, httpBody, crashed, dequeued, calls, results, published>>

\* StartWorker whose loop runs once more than Workers (i <= p.Workers)
StartWorker_OneTooMany ==
    /\ ~crashed /\ hpc = "start"
    /\ started <= processor.Workers
    /\ wg' = wg + 1
    /\ wgAdds' = wgAdds + 1
    /\ started' = started + 1
    /\ pool' = pool (+) SetToBag({Worker("recv", 0)})
    /\ UNCHANGED <<body, sink, firstRun, hpc, requests, tokenReply, processor, requestQueue, queueCap,
                   queueClosed, responseChan, respClosed, responses, retErr,
                   httpStatus, httpBody, crashed, dequeued, calls, results, published>>

\* rate.go:244-246: one iteration of the start loop: wg.Add(1); go func()
StartWorker ==
    /\ ~crashed /\ hpc = "start"
    /\ started < processor.Workers
    /\ wg' = wg + 1
    /\ wgAdds' = wgAdds + 1
    /\ started' = started + 1
    /\ pool' = pool (+) SetToBag({Worker("recv", 0)})
    /\ UNCHANGED <<body, sink, firstRun, hpc, requests, tokenReply, processor, requestQueue, queueCap,
                   queueClosed, responseChan, respClosed, responses, retErr,
                   httpStatus, httpBody, crashed, dequeued, calls, results, published>>

\* WorkerRecv whose first receive of an item leaves the item in the queue, so
\* that it is delivered a second time
WorkerRecv_Peek(w) ==
    /\ ~crashed /\ w.pc = "recv"
    /\ requestQueue # <<>>
    /\ dequeued[Head(requestQueue)] < 2
    /\ LET i == Head(requestQueue)
       IN  /\ pool' = Move(w, Worker("call", i))
           /\ dequeued' = [dequeued EXCEPT ![i] = @ + 1]
    /\ requestQueue' = IF dequeued[Head(requestQueue)] = 0 THEN requestQueue
                       ELSE Tail(requestQueue)
    /\ UNCHANGED <<body, sink, firstRun, hpc, requests, tokenReply, processor, queueCap, queueClosed,
                   responseChan, respClosed, started, wg, responses, retErr,
                   httpStatus, httpBody, crashed, calls, results, wgAdds, published>>

\* rate.go:248: for req := range requestQueue, an item is buffered; the worker
\* enters ProcessSingleRequest with it
WorkerRecv(w) ==
    /\ ~crashed /\ w.pc = "recv"
    /\ requestQueue # <<>>
    /\ LET i == Head(requestQueue)
       IN  /\ pool' = Move(w, Worker("call", i))
           /\ dequeued' = [dequeued EXCEPT ![i] = @ + 1]
    /\ requestQueue' = Tail(requestQueue)
    /\ UNCHANGED <<body, sink, firstRun, hpc, requests, tokenReply, processor, queueCap, queueClosed,
                   responseChan, respClosed, started, wg, responses, retErr,
                   httpStatus, httpBody, crashed, calls, results, wgAdds, published>>

\* WorkerExit without the deferred wg.Done()
WorkerExit_NoDone(w) ==
    /\ ~crashed /\ w.pc = "recv"
    /\ requestQueue = <<>> /\ queueClosed
    /\ pool' = Move(w, Worker("done", 0))
    /\ UNCHANGED <<body, sink, firstRun, hpc, requests, tokenReply, processor, requestQueue, queueCap,
                   queueClosed, responseChan, respClosed, started, wg,
                   responses, retErr, httpStatus, httpBody, crashed, dequeued,
                   calls, results, wgAdds, published>>

\* rate.go:247-248: the range loop ends on the closed, empty queue and the
\* deferred wg.Done() runs
WorkerExit(w) ==
    /\ ~crashed /\ w.pc = "recv"
    /\ requestQueue = <<>> /\ queueClosed
    /\ pool' = Move(w, Worker("done", 0))
    /\ wg' = wg - 1
    /\ UNCHANGED <<body, sink, firstRun, hpc, requests, tokenReply, processor, requestQueue, queueCap,
                   queueClosed, responseChan, respClosed, started,
                   responses, retErr, httpStatus, httpBody, crashed, dequeued,
                   calls, results, wgAdds, published>>

\* WorkerCall with one context shared by the whole batch: when the deadline of
\* one call expires, every other call in flight is cancelled with it
WorkerCall_SharedCtx(w, r) ==
    /\ ~crashed /\ w.pc = "call" /\ ~respClosed
    /\ LET others == IF r.kind = "deadline"
                     THEN {v \in BagToSet(pool) : v.pc = "call" /\ v # w} ELSE {}
           order  == CHOOSE q \in [1..Cardinality(others) -> others] :
                        \A a, b \in DOMAIN q : a # b => q[a] # q[b]
           hit    == <<w>> \o order
       IN  /\ Len(responseChan) + Len(hit) <= queueCap
           /\ calls' = [i \in DOMAIN calls |->
                           IF \E n \in DOMAIN hit : hit[n].req = i THEN calls[i] + 1
                           ELSE calls[i]]
           /\ results' = [i \in DOMAIN results |->
                             IF i = w.req THEN r
                             ELSE IF \E n \in DOMAIN hit : hit[n].req = i
                             THEN [kind |-> "http", status |-> 200, body |-> "[offerA]"]
                             ELSE results[i]]
           /\ responseChan' = responseChan \o
                                 [n \in DOMAIN hit |-> WorkerOutcome(requests[hit[n].req], r)]
           /\ published' = published \o [n \in DOMAIN hit |-> hit[n].req]
           /\ pool' = [v \in (BagToSet(pool) \ {x \in BagToSet(pool) : x.pc = "call" /\ (x = w \/ x \in others)})
                          |-> pool[v]]
                      (+) [v \in {Worker("recv", 0)} |-> Len(hit)]
    /\ UNCHANGED <<body, sink, firstRun, hpc, requests, tokenReply, processor, requestQueue, queueCap,
                   queueClosed, respClosed, started, wg,
                   responses, retErr, httpStatus, httpBody, crashed, dequeued, wgAdds>>

\* WorkerCall that sends a failed item once more before it publishes
WorkerCall_Retry(w, r) ==
    /\ ~crashed /\ w.pc = "call"
    /\ IF respClosed
       THEN /\ crashed' = TRUE
            /\ UNCHANGED <<responseChan, pool, calls, results, published>>
       ELSE IF r.kind # "http" /\ calls[w.req] = 0
       THEN /\ calls' = [calls EXCEPT ![w.req] = @ + 1]
            /\ UNCHANGED <<responseChan, pool, results, published, crashed>>
       ELSE /\ Len(responseChan) < queueCap
            /\ calls' = [calls EXCEPT ![w.req] = @ + 1]
            /\ results' = [results EXCEPT ![w.req] = r]
            /\ responseChan' = Append(responseChan, WorkerOutcome(requests[w.req], r))
            /\ published' = Append(published, w.req)
            /\ pool' = Move(w, Worker("recv", 0))
            /\ UNCHANGED crashed
    /\ UNCHANGED <<body, sink, firstRun, hpc, requests, tokenReply, processor, requestQueue, queueCap,
                   queueClosed, respClosed, started, wg,
                   responses, retErr, httpStatus, httpBody, dequeued, wgAdds>>

\* rate.go:249-259: one pass of the loop body after the receive:
\* ProcessSingleRequest ends with the downstream result r and the outcome is
\* sent to responseChan.  The send blocks while the buffer is full and panics
\* on a closed channel.
WorkerCall(w, r) ==
    /\ ~crashed /\ w.pc = "call"
    /\ IF respClosed
       THEN /\ crashed' = TRUE
            /\ UNCHANGED <<responseChan, pool, calls, results, published>>
       ELSE /\ Len(responseChan) < queueCap
            /\ calls' = [calls EXCEPT ![w.req] = @ + 1]
            /\ results' = [results EXCEPT ![w.req] = r]
            /\ responseChan' = Append(responseChan, WorkerOutcome(requests[w.req], r))
            /\ published' = Append(published, w.req)
            /\ pool' = Move(w, Worker("recv", 0))
            /\ UNCHANGED crashed
    /\ UNCHANGED <<body, sink, firstRun, hpc, requests, tokenReply, processor, requestQueue, queueCap,
                   queueClosed, respClosed, started, wg,
                   responses, retErr, httpStatus, httpBody, dequeued, wgAdds>>

\* rate.go:246-261 has no recover(): a panic raised inside the call path
\* (uuid.New() at rate.go:90 panics when the random source fails) unwinds the
\* worker goroutine, runs the deferred wg.Done() and terminates the process.
\* Unwinding and termination are one step: no goroutine is followed further
\* once the runtime has started to abort.
WorkerPanic(w) ==
    /\ ~crashed /\ w.pc = "call"
    /\ results' = [results EXCEPT ![w.req] = Panic]
    /\ pool' = Move(w, Worker("panicked", w.req))
    /\ wg' = wg - 1
    /\ crashed' = TRUE
    /\ UNCHANGED <<body, sink, firstRun, hpc, requests, tokenReply, processor, requestQueue, queueCap,
                   queueClosed, responseChan, respClosed, started,
                   responses, retErr, httpStatus, httpBody, dequeued, calls, wgAdds,
                   published>>

\* WaitAndClose without the wg.Wait(): the result queue is closed while
\* workers may still run
WaitAndClose_NoWait ==
    /\ ~crashed /\ hpc = "start"
    /\ ~(started < processor.Workers)
    /\ respClosed' = TRUE
    /\ hpc' = "drain"
    /\ UNCHANGED <<body, sink, firstRun, requests, tokenReply, processor, requestQueue, queueCap,
                   queueClosed, responseChan, started, wg, pool,
                   responses, retErr, httpStatus, httpBody, crashed, dequeued,
                   calls, results, wgAdds, published>>

\* rate.go:244,264-265: the start loop is over, wg.Wait() returns when the
\* counter is zero, then close(responseChan)
WaitAndClose ==
    /\ ~crashed /\ hpc = "start"
    /\ ~(started < processor.Workers)
    /\ wg = 0
    /\ respClosed' = TRUE
    /\ hpc' = "drain"
    /\ UNCHANGED <<body, sink, firstRun, requests, tokenReply, processor, requestQueue, queueCap,
                   queueClosed, responseChan, started, wg, pool,
                   responses, retErr, httpStatus, httpBody, crashed, dequeued,
                   calls, results, wgAdds, published>>

\* Aggregate that escalates a per-item error to the error of the batch
Aggregate_Escalate ==
    /\ ~crashed /\ hpc = "drain"
    /\ responses' = responseChan
    /\ responseChan' = <<>>
    /\ retErr' = IF \E k \in DOMAIN responseChan : responseChan[k].Error # Nil
                 THEN <<"request failed">> ELSE Nil
    /\ hpc' = "returned"
    /\ UNCHANGED <<body, sink, firstRun, requests, tokenReply, processor, requestQueue, queueCap,
                   queueClosed, respClosed, started, wg, pool,
                   httpStatus, httpBody, crashed, dequeued, calls, results, wgAdds, published>>

\* Aggregate that reports an error when there is nothing to return
Aggregate_ErrOnEmpty ==
    /\ ~crashed /\ hpc = "drain"
    /\ responses' = responseChan
    /\ responseChan' = <<>>
    /\ retErr' = IF responseChan = <<>> THEN <<"no responses">> ELSE Nil
    /\ hpc' = "returned"
    /\ UNCHANGED <<body, sink, firstRun, requests, tokenReply, processor, requestQueue, queueCap,
                   queueClosed, respClosed, started, wg, pool,
                   httpStatus, httpBody, crashed, dequeued, calls, results, wgAdds, published>>

\* Aggregate that returns the outcomes sorted by StopID instead of in the
\* order of the result queue
Aggregate_Sorted ==
    /\ ~crashed /\ hpc = "drain"
    /\ responses' = IF Len(responseChan) = 2 /\ responseChan[1].StopID > responseChan[2].StopID
                    THEN <<responseChan[2], responseChan[1]>>
                    ELSE responseChan
    /\ responseChan' = <<>>
    /\ retErr' = Nil
    /\ hpc' = "returned"
    /\ UNCHANGED <<body, sink, firstRun, requests, tokenReply, processor, requestQueue, queueCap,
                   queueClosed, respClosed, started, wg, pool,
                   httpStatus, httpBody, crashed, dequeued, calls, results, wgAdds, published>>

\* rate.go:267-273: range over the closed responseChan, append, return
Aggregate ==
    /\ ~crashed /\ hpc = "drain"
    /\ responses' = responseChan
    /\ responseChan' = <<>>
    /\ retErr' = Nil
    /\ hpc' = "returned"
    /\ UNCHANGED <<body, sink, firstRun, requests, tokenReply, processor, requestQueue, queueCap,
                   queueClosed, respClosed, started, wg, pool,
                   httpStatus, httpBody, crashed, dequeued, calls, results, wgAdds, published>>

\* SubmitRatingHandler, rate.go:32-38: error branch or SendJSONResponse
Respond ==
    /\ ~crashed /\ hpc = "returned"
    /\ IF retErr # Nil
       THEN RespondWithError(StatusInternalServerError, <<"Error Handling Requests: ">> \o retErr)
       ELSE /\ httpStatus' = StatusOK
            /\ httpBody' = responses
            /\ hpc' = "responded"
    /\ UNCHANGED <<body, sink, firstRun, requests, tokenReply, processor, requestQueue, queueCap,
                   queueClosed, responseChan, respClosed, started, wg, pool,
                   responses, retErr, crashed, dequeued, calls, results, wgAdds, published>>

Workers == BagToSet(pool)

Next ==
    \/ ParseRequests
    \/ \E reply \in TokenReplies : NewRequestProcessor(reply)
    \/ LoadQueue
    \/ StartWorker
    \/ \E w \in Workers : WorkerRecv(w)
    \/ \E w \in Workers : WorkerExit(w)
    \/ \E w \in Workers, r \in DownstreamResults : WorkerCall(w, r)
    \/ \E w \in Workers : WorkerPanic(w)
    \/ WaitAndClose
    \/ Aggregate
    \/ Respond

Spec == Init /\ [][Next]_vars


\* The ways a downstream call returns that matter for termination: a
\* response, a transport error, the expiry of the deadline
LiveResults ==
    {r \in DownstreamResults : \/ r.kind \in {"transport", "deadline"}
                               \/ (r.status = StatusOK /\ r.body = "[offerA]")}

LiveNext ==
    \/ ParseRequests
    \/ \E reply \in TokenReplies : NewRequestProcessor(reply)
    \/ LoadQueue
    \/ StartWorker
    \/ \E w \in Workers : WorkerRecv(w)
    \/ \E w \in Workers : WorkerExit(w)
    \/ \E w \in Workers, r \in LiveResults : WorkerCall(w, r)
    \/ \E w \in Workers : WorkerPanic(w)
    \/ WaitAndClose
    \/ Aggregate
    \/ Respond

\* The Go scheduler runs every runnable goroutine, and a channel or WaitGroup
\* operation that can proceed does proceed: a step that stays possible is taken
LiveSpec == Init /\ [][LiveNext]_vars /\ WF_vars(LiveNext)

\* The dispatcher run by a processor with any of the worker counts
PoolNext ==
    \/ ParseRequests
    \/ \E reply \in TokenReplies, W \in WorkerCounts : ConfiguredProcessor(reply, W)
    \/ LoadQueue
    \/ StartWorker
    \/ \E w \in Workers : WorkerRecv(w)
    \/ \E w \in Workers : WorkerExit(w)
    \/ \E w \in Workers, r \in DownstreamResults : WorkerCall(w, r)
    \/ \E w \in Workers : WorkerPanic(w)
    \/ WaitAndClose
    \/ Aggregate
    \/ Respond

PoolSpec == Init /\ [][PoolNext]_vars

\* Workers is an int: the worker counts above and a negative one
SignedWorkerCounts == WorkerCounts \cup {-1}

\* The dispatcher run by a processor whose worker count may be 0 or negative
SignedPoolNext ==
    \/ ParseRequests
    \/ \E reply \in TokenReplies, W \in SignedWorkerCounts : ConfiguredProcessor(reply, W)
    \/ LoadQueue
    \/ StartWorker
    \/ \E w \in Workers : WorkerRecv(w)
    \/ \E w \in Workers : WorkerExit(w)
    \/ \E w \in Workers, r \in DownstreamResults : WorkerCall(w, r)
    \/ \E w \in Workers : WorkerPanic(w)
    \/ WaitAndClose
    \/ Aggregate
    \/ Respond

SignedPoolSpec == Init /\ [][SignedPoolNext]_vars

\* The worker loop with the log call of an item taken apart.  rate.go:248-250
\* and 89-91: the worker receives an item, enters ProcessSingleRequest (which
\* starts the 69 s deadline) and PostRequestWithContext, and reaches
\* log.Info, where it asks for the mutex of the one global Logger
WorkerEnter(w) ==
    /\ ~crashed /\ w.pc = "recv"
    /\ requestQueue # <<>>
    /\ LET i == Head(requestQueue)
       IN  /\ pool' = Move(w, Worker("log", i))
           /\ dequeued' = [dequeued EXCEPT ![i] = @ + 1]
    /\ requestQueue' = Tail(requestQueue)
    /\ UNCHANGED <<body, sink, firstRun, hpc, requests, tokenReply, processor, queueCap, queueClosed,
                   responseChan, respClosed, started, wg, responses, retErr,
                   httpStatus, httpBody, crashed, calls, results, wgAdds, published>>

\* Logger.log, log/main.go:255: l.mu.Lock() returns when no goroutine holds
\* the mutex; the holder is the worker inside Logger.log (pc "write")
LogLock(w) ==
    /\ ~crashed /\ w.pc = "log"
    /\ \A x \in BagToSet(pool) : x.pc # "write"
    /\ pool' = Move(w, Worker("write", w.req))
    /\ UNCHANGED <<body, sink, firstRun, hpc, requests, tokenReply, processor, requestQueue,
                   queueCap, queueClosed, responseChan, respClosed, started, wg, responses,
                   retErr, httpStatus, httpBody, crashed, dequeued, calls, results, wgAdds,
                   published>>

\* Logger.log, log/main.go:256-281: the entry is formatted, printed and
\* written with l.output.Write (MongoDBLogOutput.Write: InsertOne under
\* context.Background()); the deferred l.mu.Unlock() runs when that returns
LogUnlock(w) ==
    /\ ~crashed /\ w.pc = "write"
    /\ pool' = Move(w, Worker("call", w.req))
    /\ UNCHANGED <<body, sink, firstRun, hpc, requests, tokenReply, processor, requestQueue,
                   queueCap, queueClosed, responseChan, respClosed, started, wg, responses,
                   retErr, httpStatus, httpBody, crashed, dequeued, calls, results, wgAdds,
                   published>>

\* The dispatcher with the workers' log calls as steps of their own
LockNext ==
    \/ ParseRequests
    \/ \E reply \in TokenReplies : NewRequestProcessor(reply)
    \/ LoadQueue
    \/ StartWorker
    \/ \E w \in Workers : WorkerEnter(w)
    \/ \E w \in Workers : LogLock(w)
    \/ \E w \in Workers : LogUnlock(w)
    \/ \E w \in Workers : WorkerExit(w)
    \/ \E w \in Workers, r \in LiveResults : WorkerCall(w, r)
    \/ \E w \in Workers : WorkerPanic(w)
    \/ WaitAndClose
    \/ Aggregate
    \/ Respond

LockSpec == Init /\ [][LockNext]_vars

\* The handler run with any state of the event sink
SinkSpec == SinkInit /\ [][Next]_vars

\* the outcomes of a slice, as a bag
SeqToBag(seq) ==
    [o \in {seq[k] : k \in DOMAIN seq} |-> Cardinality({k \in DOMAIN seq : seq[k] = o})]

\* ProcessRequestsInParallel is called once more with the same requests, after
\* its first call has returned: every local of rate.go:233-274 (both channels,
\* the WaitGroup, the goroutines, the responses slice) is made anew
Rerun ==
    /\ ~crashed /\ hpc = "returned" /\ ~firstRun.done
    /\ firstRun' = [done |-> TRUE, outcomes |-> SeqToBag(responses), results |-> results]
    /\ hpc' = "load"
    /\ requestQueue' = <<>> /\ queueCap' = 0 /\ queueClosed' = FALSE
    /\ responseChan' = <<>> /\ respClosed' = FALSE
    /\ started' = 0 /\ wg' = 0 /\ pool' = EmptyBag
    /\ responses' = <<>> /\ retErr' = Nil
    /\ dequeued' = [i \in 1..Len(requests) |-> 0]
    /\ calls' = [i \in 1..Len(requests) |-> 0]
    /\ results' = [i \in 1..Len(requests) |-> NoReply]
    /\ wgAdds' = 0 /\ published' = <<>>
    /\ UNCHANGED <<body, sink, requests, tokenReply, processor, httpStatus, httpBody, crashed>>

\* A downstream service whose response is a function of the work item: the
\* results item i can get are the result already given to an item with the
\* same StopId, in this run or in the earlier one, or any result if there is none
Answers(i) ==
    LET same == {j \in 1..Len(requests) : requests[j].StopId = requests[i].StopId}
        now == {results[j] : j \in {x \in same : results[x] \notin {NoReply, Panic}}}
        earlier == IF firstRun.done THEN {firstRun.results[j] : j \in same} ELSE {}
    IN  IF now \cup earlier = {} THEN DownstreamResults ELSE now \cup earlier

\* Two runs of the dispatcher on one batch against a deterministic downstream
RerunNext ==
    \/ ParseRequests
    \/ \E reply \in TokenReplies : NewRequestProcessor(reply)
    \/ LoadQueue
    \/ StartWorker
    \/ \E w \in Workers : WorkerRecv(w)
    \/ \E w \in Workers : WorkerExit(w)
    \/ \E w \in {x \in Workers : x.pc = "call"} : \E r \in Answers(w.req) : WorkerCall(w, r)
    \/ \E w \in Workers : WorkerPanic(w)
    \/ WaitAndClose
    \/ Aggregate
    \/ Rerun
    \/ Respond

RerunSpec == Init /\ [][RerunNext]_vars

(* ------------------------- helpers of the claims ----------------------- *)
\* ProcessRequestsInParallel has returned to the handler
Returned == hpc = "returned" \/ (hpc = "responded" /\ processor.set)

Items == DOMAIN requests

\* positions of seq whose element satisfies P
Where(seq, P(_)) == {k \in DOMAIN seq : P(seq[k])}

Distinct(seq) == \A i, j \in DOMAIN seq : i # j => seq[i].StopId # seq[j].StopId

\* number of worker goroutines that hold item i
Holders(i) ==
    LET hs == {w \in BagToSet(pool) : w.req = i}
    IN  IF hs = {} THEN 0 ELSE BagCardinality([w \in hs |-> CopiesIn(w, pool)])

IsErrorOutcome(o) == o.Response = Nil /\ o.Error # Nil
IsSuccessOutcome(o) == o.Error = Nil

(* ------------------------------ claims --------------------------------- *)

\* C1: once ProcessRequestsInParallel has returned, the number of outcomes it
\* returned equals the length of the batch.
C1_OutcomeCount == Returned => Len(responses) = Len(requests)

\* C1 witness: the dispatcher returned a two-item batch with one failed and
\* one succeeded item.
C1_Witness ==
    /\ hpc = "returned" /\ Len(requests) >= 2
    /\ \E a, b \in DOMAIN responses : responses[a].Error # Nil /\ responses[b].Error = Nil

\* C2: for a batch with pairwise distinct StopIds, every returned outcome
\* carries the StopId of a submitted item and every submitted StopId appears
\* in exactly one outcome.
C2_StopIdsExact ==
    (Returned /\ Distinct(requests)) =>
        /\ \A k \in DOMAIN responses : \E i \in Items : requests[i].StopId = responses[k].StopID
        /\ \A i \in Items :
              Cardinality({k \in DOMAIN responses : responses[k].StopID = requests[i].StopId}) = 1

\* C2 witness: a batch of two distinct StopIds was returned, one of its items
\* having failed.
C2_Witness ==
    /\ hpc = "returned" /\ Len(requests) >= 2 /\ Distinct(requests)
    /\ \E k \in DOMAIN responses : responses[k].Error # Nil

\* C3: no item is received from the work queue twice or held by two workers,
\* and when the dispatcher returns every item was received and processed once.
C3_ExactlyOneWorker ==
    /\ \A i \in Items : dequeued[i] <= 1 /\ Holders(i) <= 1
    /\ Returned => /\ requestQueue = <<>>
                   /\ \A i \in Items : dequeued[i] = 1 /\ calls[i] = 1

\* C3 witness: two workers are inside their downstream calls at the same time
\* and hold different items.
C3_Witness ==
    \E i, j \in Items : i # j /\ Holders(i) = 1 /\ Holders(j) = 1
                        /\ Worker("call", i) \in BagToSet(pool)
                        /\ Worker("call", j) \in BagToSet(pool)

\* classes of downstream results
Failing(r) ==
    \/ r.kind \in {"transport", "deadline"}
    \/ r.kind = "http" /\ r.status # 200
    \/ r.kind = "http" /\ r.status = 200 /\ r.body \notin {"[]", "null", "[offerA]"}
EmptyList(r) == r.kind = "http" /\ r.status = 200 /\ r.body \in {"[]", "null"}
ValidOffers(r) == r.kind = "http" /\ r.status = 200 /\ r.body = "[offerA]"

BothEmpty(o) == o.Response = Nil /\ o.Error = Nil
BothSet(o) == o.Response # Nil /\ o.Error # Nil
Mentions(e, word) == \E n \in DOMAIN e : e[n] = word

\* the items with StopId sid whose downstream result satisfies P
ItemsWith(sid, P(_)) == {i \in Items : requests[i].StopId = sid /\ P(results[i])}

\* every outcome that exists: buffered in responseChan, or returned
Outcomes ==
    {responseChan[k] : k \in DOMAIN responseChan}
    \cup {responses[k] : k \in DOMAIN responses}

\* the outcomes in publication order, each with the item it was computed for
Published == IF hpc \in {"returned", "responded"} THEN responses ELSE responseChan

\* C4 (as stated): every outcome has exactly one of Response and Error
\* non-empty, for every downstream result.
C4_ExactlyOne == \A o \in Outcomes : ~BothSet(o) /\ ~BothEmpty(o)

\* C4 (amended): no outcome has both Response and Error non-empty; the outcome
\* of an item has both empty exactly when its downstream call answered 200
\* with an empty or null list, and has a non-empty Error and an empty Response
\* exactly when the call failed (transport error, deadline, non-200 status,
\* unparsable body).
C4_NeverBoth ==
    /\ \A o \in Outcomes : ~BothSet(o)
    /\ Len(Published) = Len(published)
    /\ \A k \in DOMAIN Published :
          /\ BothEmpty(Published[k]) <=> EmptyList(results[published[k]])
          /\ IsErrorOutcome(Published[k]) <=> Failing(results[published[k]])

\* C4 witness: the dispatcher returned an outcome with neither payload nor
\* error next to an error outcome.
C4_Witness ==
    /\ hpc = "returned"
    /\ \E a, b \in DOMAIN responses : BothEmpty(responses[a]) /\ IsErrorOutcome(responses[b])

\* C5 (as stated): a panic raised while a worker processes an item is caught:
\* the process keeps running and the item gets an error outcome.
C5_FaultContained ==
    \A i \in Items :
        results[i] = Panic =>
            /\ ~crashed
            /\ \E o \in Outcomes : o.StopID = requests[i].StopId /\ IsErrorOutcome(o)

\* the token provider did not yield a bearer token
TokenFailed(reply) ==
    \/ reply.kind = "transport"
    \/ reply.kind = "http" /\ reply.status # 200
    \/ reply.kind = "http" /\ reply.status = 200 /\ reply.body # "token"

\* C6 (as stated): when the token provider fails to yield a token, no
\* processor is created, the handler answers with an error status, no worker
\* is started and no downstream call is issued.
C6_NoBatchWithoutToken ==
    TokenFailed(tokenReply) =>
        /\ ~processor.set
        /\ hpc = "responded" /\ httpStatus >= 400
        /\ started = 0 /\ pool = EmptyBag
        /\ \A i \in Items : dequeued[i] = 0 /\ calls[i] = 0

\* C7: per-item errors are not escalated: the dispatcher returns a nil error,
\* the handler answers 200 with the outcome array, and for every StopId the
\* numbers of error outcomes and of error-free outcomes are the numbers of
\* that StopId's items whose own call failed and did not fail.
C7_NoEscalation ==
    /\ Returned => retErr = Nil
    /\ (hpc = "responded" /\ processor.set) =>
            httpStatus = StatusOK /\ httpBody = responses
    /\ Returned =>
          \A sid \in StopIds :
             /\ Cardinality(Where(responses, LAMBDA o : o.StopID = sid /\ IsErrorOutcome(o)))
                   = Cardinality(ItemsWith(sid, Failing))
             /\ Cardinality(Where(responses, LAMBDA o : o.StopID = sid /\ IsSuccessOutcome(o)))
                   = Cardinality(ItemsWith(sid, LAMBDA r : ~Failing(r)))

\* C7 witness: the handler answered 200 for a batch of two items that both
\* failed.
C7_Witness ==
    /\ hpc = "responded" /\ httpStatus = StatusOK /\ Len(responses) >= 2
    /\ \A k \in DOMAIN responses : IsErrorOutcome(responses[k])

\* C8 (as stated): for a batch of size 0 no worker is started and the join
\* counter is never incremented; the result is empty with no error.
C8_NoWorkersOnEmpty ==
    (processor.set /\ Len(requests) = 0) =>
        /\ wgAdds = 0 /\ pool = EmptyBag
        /\ Returned => responses = <<>> /\ retErr = Nil

\* C8 (amended): for a batch of size 0 the dispatcher returns an empty result
\* with no error; it still starts its Workers workers (one wg.Add each), and
\* each of them finds the closed queue empty and exits without a downstream
\* call and without publishing.
C8_EmptyBatch ==
    (processor.set /\ Len(requests) = 0) =>
        /\ \A w \in BagToSet(pool) : w.pc \in {"recv", "done"}
        /\ responseChan = <<>>
        /\ Returned => /\ responses = <<>> /\ retErr = Nil
                       /\ wgAdds = processor.Workers
                       /\ pool = [w \in {Worker("done", 0)} |-> processor.Workers]

\* C8 witness: the dispatcher returned for an empty batch after starting all
\* its workers.
C8_Witness == hpc = "returned" /\ Len(requests) = 0 /\ wgAdds = MaxWorkers

C10_DeadlineIsolated ==
    (Returned /\ \E i \in Items : results[i].kind = "deadline") =>
        \A sid \in StopIds :
           /\ Cardinality(Where(responses, LAMBDA o :
                    /\ o.StopID = sid /\ IsErrorOutcome(o)
                    /\ Mentions(o.Error, "context deadline exceeded")))
                 = Cardinality(ItemsWith(sid, LAMBDA r : r.kind = "deadline"))
           /\ Cardinality(Where(responses, LAMBDA o :
                    o = [StopID |-> sid, Response |-> <<"offerA">>, Error |-> Nil]))
                 = Cardinality(ItemsWith(sid, ValidOffers))

\* C10 witness: one item of a returned batch ran into its deadline and a
\* sibling was answered 200 with a valid payload.
C10_Witness ==
    /\ hpc = "returned"
    /\ \E i, j \in Items : results[i].kind = "deadline" /\ ValidOffers(results[j])

\* the downstream result of the item whose outcome was published k-th
ResultAt(k) == results[published[k]]
\* the item whose outcome was published k-th
ItemAt(k) == requests[published[k]]

NonOKMarker == "non-200 HTTP status code received: "

\* C11 (as stated): an item answered with a non-2xx status gets an empty
\* payload and an error that contains the status code and the raw body, and
\* only responses with a status outside 2xx are classified as this error.
C11_Non2xxOnly ==
    \A k \in DOMAIN Published :
        LET r == ResultAt(k)
            o == Published[k]
            non2xx == r.kind = "http" /\ (r.status < 200 \/ r.status > 299)
        IN  /\ non2xx => /\ o.Response = Nil
                         /\ Mentions(o.Error, ToString(r.status))
                         /\ Mentions(o.Error, r.body)
            /\ Mentions(o.Error, NonOKMarker) => non2xx

\* C11 (amended): an item gets the status error (empty payload, error string
\* with the status code and the raw body) exactly when its downstream
\* response has a status other than 200; this covers every non-2xx status and
\* also 2xx statuses other than 200, such as 201.
C11_Non200 ==
    /\ Len(Published) = Len(published)
    /\ \A k \in DOMAIN Published :
          LET r == ResultAt(k)
              o == Published[k]
              non200 == r.kind = "http" /\ r.status # 200
          IN  /\ non200 => /\ o.Response = Nil
                           /\ Mentions(o.Error, ToString(r.status))
                           /\ Mentions(o.Error, r.body)
              /\ Mentions(o.Error, NonOKMarker) <=> non200

\* C11 witness: the dispatcher returned one item answered 500 "boom" and one
\* item answered 201.
C11_Witness ==
    /\ hpc = "returned"
    /\ \E a, b \in DOMAIN responses :
          /\ ResultAt(a).status = 500 /\ Mentions(responses[a].Error, "boom")
          /\ ResultAt(b).status = 201

\* the list a 200 body decodes to
Decoded(b) == IF b = "[offerA]" THEN <<"offerA">> ELSE Nil

\* C12: every item answered 200 with a body that parses as a list of offers
\* has an outcome in the result with its StopId, exactly the decoded list and
\* an empty error, whatever the other items ended with.
C12_SuccessPayload ==
    Returned =>
        /\ \A i \in Items :
              (ValidOffers(results[i]) \/ EmptyList(results[i])) =>
                  \E k \in DOMAIN responses : published[k] = i
        /\ \A k \in DOMAIN responses :
              (ValidOffers(ResultAt(k)) \/ EmptyList(ResultAt(k))) =>
                  responses[k] = [StopID |-> ItemAt(k).StopId,
                                  Response |-> Decoded(ResultAt(k).body),
                                  Error |-> Nil]

\* C12 witness: the dispatcher returned an item with its decoded offers next
\* to an item whose call ended with a transport error.
C12_Witness ==
    /\ hpc = "returned"
    /\ \E a, b \in DOMAIN responses :
          /\ responses[a].Response = <<"offerA">> /\ responses[a].Error = Nil
          /\ ResultAt(b).kind = "transport"

\* C13: when the request body does not parse, the handler answers 400 and
\* nothing else happens: no token is requested, no processor is created, no
\* worker is started, no item is queued and no downstream call is made.
C13_MalformedRejected ==
    ~body.valid =>
        /\ hpc \in {"parse", "responded"}
        /\ hpc = "responded" => httpStatus = StatusBadRequest
        /\ tokenReply = NoReply /\ ~processor.set
        /\ started = 0 /\ wgAdds = 0 /\ pool = EmptyBag
        /\ requests = <<>> /\ requestQueue = <<>> /\ ~queueClosed
        /\ calls = <<>> /\ responses = <<>>

\* C13 witness: the handler answered 400 to a malformed body.
C13_Witness == ~body.valid /\ hpc = "responded" /\ httpStatus = StatusBadRequest

\* the number of workers of the pool at position pc
CountAt(pc) ==
    LET at == {w \in Workers : w.pc = pc}
        RECURSIVE Sum(_)
        Sum(S) == IF S = {} THEN 0
                  ELSE LET w == CHOOSE x \in S : TRUE
                       IN  CopiesIn(w, pool) + Sum(S \ {w})
    IN  Sum(at)

\* the dispatcher's phases: Idle (before LoadQueue), Loaded/Running (the
\* start loop and the workers), Draining (result queue closed), Complete
PhaseOrder ==
    /\ hpc \in {"parse", "token", "load"} =>
          /\ requestQueue = <<>> /\ ~queueClosed /\ ~respClosed
          /\ pool = EmptyBag /\ responseChan = <<>> /\ responses = <<>>
    /\ (started > 0 \/ pool # EmptyBag) =>
          /\ queueClosed
          /\ \A i \in Items : dequeued[i] + Cardinality(Where(requestQueue, LAMBDA x : x = i)) = 1
    /\ respClosed =>
          /\ started = processor.Workers
          /\ BagCardinality(pool) = processor.Workers
          /\ \A w \in Workers : w.pc = "done"
          /\ wg = 0
    /\ responses # <<>> => respClosed
    /\ hpc = "returned" => respClosed /\ responseChan = <<>>

PhaseSteps ==
    /\ hpc = "load" => hpc' \in {"load", "start"}
    /\ hpc = "start" => hpc' \in {"start", "drain"}
    /\ hpc = "drain" => hpc' \in {"drain", "returned"}
    /\ queueClosed => queueClosed' /\ Len(requestQueue') <= Len(requestQueue)
    /\ respClosed => /\ respClosed'
                     /\ published' = published
                     /\ responseChan' \in {responseChan, <<>>}
    /\ ~respClosed => responses' = responses

\* C16: the dispatcher goes through Idle, Loaded, Running, Draining, Complete
\* in that order: the work queue is populated and closed before any worker
\* starts and never grows afterwards, the result queue is closed only after
\* all W workers have exited, nothing is published after that close and the
\* aggregation reads nothing before it.
C16_Lifecycle == []PhaseOrder /\ [][PhaseSteps]_vars

\* C16 witness: a batch of two items went through all phases: the dispatcher
\* returned after the close, with all workers exited.
C16_Witness ==
    /\ hpc = "returned" /\ respClosed /\ queueClosed
    /\ Len(requests) = 2 /\ Len(responses) = 2
    /\ CountAt("done") = processor.Workers

\* C17: no publish can block and the pre-load cannot block: neither queue
\* ever holds more than its capacity len(batch), and whenever a worker is
\* about to publish the result queue has a free slot.
C17_NeverBlocks ==
    /\ queueClosed => queueCap = Len(requests)
    /\ Len(requestQueue) <= queueCap
    /\ Len(responseChan) <= queueCap
    /\ ~respClosed => Len(responseChan) + CountAt("call") <= queueCap

\* C17 witness: every outcome of a batch of two sits in the result queue
\* while the dispatcher has not begun to drain.
C17_Witness ==
    /\ hpc = "start" /\ ~respClosed
    /\ queueCap = 2 /\ Len(responseChan) = queueCap

\* the sum of calls over all items
RECURSIVE SumCalls(_)
SumCalls(n) == IF n = 0 THEN 0 ELSE calls[n] + SumCalls(n - 1)

\* C19: every item is sent downstream once per run, whatever the call ends
\* with: an item that was sent is neither queued nor held by a worker again,
\* and when the dispatcher returns the number of calls is the batch length.
C19_SingleAttempt ==
    /\ \A i \in Items :
          /\ calls[i] <= 1
          /\ calls[i] = 1 => /\ Holders(i) = 0
                             /\ \A k \in DOMAIN requestQueue : requestQueue[k] # i
    /\ Returned => /\ \A i \in Items : calls[i] = 1
                   /\ SumCalls(Len(requests)) = Len(requests)

\* C19 witness: the dispatcher returned a batch of two whose calls both
\* failed, one with a transport error and one with an unparsable body.
C19_Witness ==
    /\ hpc = "returned" /\ Len(requests) = 2
    /\ \E i, j \in Items : /\ results[i].kind = "transport"
                           /\ results[j].body = "garbage"
    /\ SumCalls(2) = 2

\* C20: the returned sequence is the sequence of outcomes in the order the
\* workers published them, which need not be the input order.
C20_CompletionOrder ==
    Returned =>
        /\ Len(responses) = Len(published)
        /\ \A k \in DOMAIN responses :
              responses[k] = WorkerOutcome(ItemAt(k), ResultAt(k))

\* C20 witness: two workers, two items with different identifiers; the second
\* item was published first and comes first in the result.
C20_Witness ==
    /\ hpc = "returned" /\ published = <<2, 1>>
    /\ requests[1].StopId # requests[2].StopId
    /\ responses[1].StopID = requests[2].StopId
    /\ responses[2].StopID = requests[1].StopId

Min(a, b) == IF a < b THEN a ELSE b

PoolState ==
    /\ started <= processor.Workers
    /\ wgAdds = started /\ BagCardinality(pool) = started
    /\ (hpc \in {"drain", "returned"} \/ respClosed) => started = processor.Workers
    /\ CountAt("call") <= Min(processor.Workers, Len(requests))
    /\ Len(published) <= Len(requests)
    /\ SumCalls(Len(requests)) <= Len(requests)

\* a step in which a worker leaves the loop on the closed, empty queue
PoolSteps ==
    CountAt("done")' > CountAt("done") =>
        /\ requestQueue = <<>> /\ queueClosed
        /\ UNCHANGED <<calls, results, responseChan, published, requestQueue>>

\* C18: with worker count W the dispatcher starts exactly W workers, never
\* more than min(W, len(batch)) downstream calls are in flight, and a worker
\* that finds the closed queue empty exits without a downstream call and
\* without publishing an outcome.
C18_PoolSize == []PoolState /\ [][PoolSteps]_vars

\* C18 witness: one worker and a batch of two: one call is in flight while
\* the other item waits in the queue.
C18_Witness ==
    /\ processor.Workers = 1 /\ started = 1
    /\ CountAt("call") = 1 /\ Len(requestQueue) = 1

\* C15: a failing event sink (a write that returns an error, an unavailable
\* or never initialised sink) never fails the batch and never changes or
\* removes an outcome: the handler is not aborted and every returned outcome
\* is the one its item's downstream result determines.
C15_SinkNeverFails ==
    sink # "ok" =>
        /\ hpc # "panicked"
        /\ Returned =>
              /\ Len(responses) = Len(requests)
              /\ \A k \in DOMAIN responses :
                    responses[k] = WorkerOutcome(ItemAt(k), ResultAt(k))

\* C14: against a downstream whose response is a function of the work item,
\* a second run of the dispatcher on the same batch returns the same outcomes
\* as the first (same identifiers with the same payload or error, counted
\* with multiplicity), whatever the two interleavings of the workers were.
C14_SameOutcomes ==
    (firstRun.done /\ hpc = "returned") => SeqToBag(responses) = firstRun.outcomes

\* C14 witness: the second run returned a success and an error outcome, the
\* second item first.
C14_Witness ==
    /\ firstRun.done /\ hpc = "returned"
    /\ published = <<2, 1>>
    /\ \E a, b \in DOMAIN responses : responses[a].Error = Nil /\ responses[b].Error # Nil

\* C22: with a worker count of 0 or less the dispatcher starts no worker,
\* does not block on the join, makes no downstream call and returns an empty
\* result with a nil error for any batch; the items of a non-empty batch stay
\* in the work queue.
C22_NoWorkers ==
    (processor.set /\ processor.Workers <= 0) =>
        /\ started = 0 /\ wgAdds = 0 /\ wg = 0 /\ pool = EmptyBag
        /\ \A i \in Items : calls[i] = 0 /\ dequeued[i] = 0
        /\ responseChan = <<>> /\ published = <<>>
        /\ queueClosed => requestQueue = [i \in 1..Len(requests) |-> i]
        /\ hpc = "start" => ENABLED WaitAndClose
        /\ hpc # "start" => ~crashed
        /\ Returned => responses = <<>> /\ retErr = Nil

\* C22 witness: a processor with a negative worker count returned nothing for
\* a batch of two, whose items are still queued.
C22_Witness ==
    /\ processor.set /\ processor.Workers < 0
    /\ hpc = "returned" /\ responses = <<>> /\ retErr = Nil
    /\ Len(requests) = 2 /\ Len(requestQueue) = 2

\* C23: with exactly one worker the items are processed one at a time in
\* input order, and outcome i of the returned sequence carries the StopId of
\* item i.
C23_SingleWorkerOrder ==
    (processor.set /\ processor.Workers = 1) =>
        /\ CountAt("call") <= 1
        /\ published = [k \in 1..Len(published) |-> k]
        /\ \A w \in Workers : w.pc = "call" => w.req = Len(published) + 1
        /\ Returned =>
              /\ Len(responses) = Len(requests)
              /\ \A i \in Items : responses[i].StopID = requests[i].StopId

\* C23 witness: one worker returned a batch of two items with different
\* StopIds in input order.
C23_Witness ==
    /\ processor.Workers = 1 /\ hpc = "returned"
    /\ Len(responses) = 2 /\ requests[1].StopId # requests[2].StopId
    /\ responses[1].StopID = requests[1].StopId
    /\ responses[2].StopID = requests[2].StopId

\* C21: the workers of a batch synchronise through the work queue and the
\* result queue only: no worker that is processing an item ever waits for a
\* lock that a sibling holds.
C21_OnlyQueues ==
    ~(\E w, x \in Workers : w.pc = "log" /\ x.pc = "write")

====
